---- MODULE Spec2Model ----
(***************************************************************************)
(* Video generation scripts of TheAgencyIQ (stable-video-diffusion/).      *)
(*                                                                         *)
(* Two programs are modelled, each serving one request per process:        *)
(*   generate_video.py           neural image + motion, image animation,   *)
(*                               ffmpeg filter-graph render                *)
(*   generate_video_fallback.py  mock video (ffmpeg test pattern or a      *)
(*                               minimal MP4) plus a metadata file         *)
(* The environment (installed libraries, the ffmpeg binary, the            *)
(* filesystem) answers each call nondeterministically, within the          *)
(* capability set fixed for the request.                                   *)
(***************************************************************************)
EXTENDS Integers, Sequences, FiniteSets, TLC

(* ---------------------------- bounds ----------------------------------- *)
\* requested widths are 640*k, heights 360*k, k in 1..MaxGeometryStep
MaxGeometryStep == 1
\* requested durations are 5*k seconds, k in 1..MaxDurationStep
MaxDurationStep == 1
\* an encoder or video writer leaves 1024*k bytes, k in 1..MaxClipKiB
MaxClipKiB == 2
\* prompts have at most MaxPromptWords words
MaxPromptWords == 2

(* ------------------------ program constants ---------------------------- *)
DefaultWidth == 1920
DefaultHeight == 1080
DefaultDuration == 15
FallbackDefaultDuration == 30
MinimalMp4Size == 32
MetadataJsonBase == 191
UsageExitCode == 2

(* ------------------------------ paths ---------------------------------- *)
\* A path is a sequence of tokens; "/" separates components and an
\* extension is a token of its own, so that str.replace('.mp4', ...) acts
\* on tokens exactly as it acts on the characters.
OutputPaths ==
    { <<"out", "/", "clip", ".mp4">>,
      <<"clip", ".mp4">>,
      <<"out", "/", "clip", ".mov">>,
      <<"out", "/", "clip">>,
      <<"out", ".mp4", "/", "clip", ".mp4">> }

SlashIdx(p) == {i \in 1..Len(p) : p[i] = "/"}

MaxOf(S) == CHOOSE m \in S : \A n \in S : n <= m

\* os.path.dirname: everything before the last separator, '' when none
dirname(p) ==
    IF SlashIdx(p) = {} THEN <<>> ELSE SubSeq(p, 1, MaxOf(SlashIdx(p)) - 1)

\* pathlib.Path(p).parent: as dirname, '.' (the working directory, written
\* <<>> here) when the path has a single component
parent(p) == dirname(p)

\* str.replace(old, new): every occurrence is replaced
str_replace(p, old, new) ==
    [i \in 1..Len(p) |-> IF p[i] = old THEN new ELSE p[i]]

metadata_path(output_path) == str_replace(output_path, ".mp4", "_metadata.json")

(* ------------------------------ files ---------------------------------- *)
ClipSizes == {1024 * k : k \in 1..MaxClipKiB}

AbsentFile == [kind |-> "absent", size |-> 0]
OldFile == [kind |-> "old", size |-> 1024]
\* an unfinished file: what a writer that failed, was killed or is still
\* running has put at its target so far.  Any byte count can be left; the
\* counts followed are the multiples of PartialGrain up to the largest clip.
PartialGrain == 100
PartialSizes == {PartialGrain * k : k \in 0..((1024 * MaxClipKiB) \div PartialGrain)}
PartialFiles == {[kind |-> "partial", size |-> n] : n \in PartialSizes}
\* create_mock_video, lines 45-47: the 32 bytes of the minimal container
MinimalMp4 == [kind |-> "minimal", size |-> MinimalMp4Size]
ClipFile(kind, size) == [kind |-> kind, size |-> size]

\* what `with open(path, 'w') as f: f.write(...)` leaves when the write
\* fails after open() has truncated the file: fewer bytes than the full
\* content, none included
CutOff(kind, full) == {[kind |-> kind, size |-> n] : n \in 0..(full - 1)}

\* os.path.getsize
getsize(file) == file.size

Digits(n) == Len(ToString(n))

\* byte length of json.dump(metadata, f, indent=2)
JsonSize(metadata) ==
    MetadataJsonBase + Digits(metadata.duration) + Digits(metadata.fileSize)

MetadataFile(metadata) == [kind |-> "metadata", size |-> JsonSize(metadata)]

(* ------------------------------- text ---------------------------------- *)
\* A prompt is a sequence of characters.
UpperLetters == <<"A", "B", "C", "D", "E", "F", "G", "H", "I", "J", "K", "L", "M", "N", "O", "P", "Q", "R", "S", "T", "U", "V", "W", "X", "Y", "Z">>
LowerLetters == <<"a", "b", "c", "d", "e", "f", "g", "h", "i", "j", "k", "l", "m", "n", "o", "p", "q", "r", "s", "t", "u", "v", "w", "x", "y", "z">>

\* str.lower, character by character
LowerOf ==
    [c \in {UpperLetters[i] : i \in 1..Len(UpperLetters)} |->
        LowerLetters[CHOOSE i \in 1..Len(UpperLetters) : UpperLetters[i] = c]]
lower_char(c) == IF c \in DOMAIN LowerOf THEN LowerOf[c] ELSE c
lower(s) == [i \in 1..Len(s) |-> lower_char(s[i])]

\* Python's `kw in s` on strings: kw occurs as a contiguous substring
contains(s, kw) ==
    \E i \in 0..(Len(s) - Len(kw)) : \A j \in 1..Len(kw) : s[i + j] = kw[j]

\* the keywords of generate_asmr_video, lines 131, 148, 165
kw_glass == <<"g", "l", "a", "s", "s">>
kw_slice == <<"s", "l", "i", "c", "e">>
kw_transformation == <<"t", "r", "a", "n", "s", "f", "o", "r", "m", "a", "t", "i", "o", "n">>
kw_productivity == <<"p", "r", "o", "d", "u", "c", "t", "i", "v", "i", "t", "y">>
kw_automation == <<"a", "u", "t", "o", "m", "a", "t", "i", "o", "n">>

\* lines 131-196 with the tests on the prompt as typed, without .lower()
select_cmd_case_sensitive(prompt) ==
    IF contains(prompt, kw_glass) \/ contains(prompt, kw_slice)
       THEN "glass_apple_slicing"
    ELSE IF contains(prompt, kw_transformation)
       THEN "business_transformation"
    ELSE IF contains(prompt, kw_productivity) \/ contains(prompt, kw_automation)
       THEN "automated_productivity"
    ELSE "default_dynamic"

\* generate_asmr_video, lines 131-196: the if/elif chain that picks the
\* ffmpeg command
select_cmd(prompt) ==
    LET prompt_lower == lower(prompt)
    IN IF contains(prompt_lower, kw_glass) \/ contains(prompt_lower, kw_slice)
          THEN "glass_apple_slicing"
       ELSE IF contains(prompt_lower, kw_transformation)
          THEN "business_transformation"
       ELSE IF contains(prompt_lower, kw_productivity) \/ contains(prompt_lower, kw_automation)
          THEN "automated_productivity"
       ELSE "default_dynamic"

\* prompts: up to MaxPromptWords words joined by single spaces
PromptWords ==
    { <<"g", "l", "a", "s", "s">>,
      <<"G", "l", "a", "s", "s">>,
      <<"s", "l", "i", "c", "e">>,
      <<"T", "r", "a", "n", "s", "f", "o", "r", "m", "a", "t", "i", "o", "n">>,
      <<"A", "U", "T", "O", "M", "A", "T", "I", "O", "N">>,
      <<"p", "r", "o", "d", "u", "c", "t", "i", "v", "i", "t", "y">>,
      <<"g", "r", "o", "w", "t", "h">> }

RECURSIVE PromptsOfLength(_)
PromptsOfLength(n) ==
    IF n = 0 THEN {<<>>}
    ELSE IF n = 1 THEN PromptWords
    ELSE {p \o <<" ">> \o w : p \in PromptsOfLength(n - 1), w \in PromptWords}

Prompts == UNION {PromptsOfLength(n) : n \in 0..MaxPromptWords}

\* the prompts of the requests followed through the whole program
RequestPrompts ==
    { <<"A", "U", "T", "O", "M", "A", "T", "I", "O", "N", " ", "g", "r", "o", "w", "t", "h">>,
      <<"G", "l", "a", "s", "s">>,
      <<"f", "o", "r", "e", "s", "t">> }

(* --------------------------- command line ------------------------------ *)
\* an option that was not given is <<>>, an option given with value v is <<v>>
Widths == {640 * k : k \in 1..MaxGeometryStep}
Heights == {360 * k : k \in 1..MaxGeometryStep}
Durations == {5 * k : k \in 1..MaxDurationStep}

Opt(S) == {<<>>} \cup {<<v>> : v \in S}

Argv ==
    [prompt : RequestPrompts, output : OutputPaths, width : Opt(Widths), height : Opt(Heights),
     duration : Opt(Durations), short : BOOLEAN]

OrDefault(opt, default) == IF opt = <<>> THEN default ELSE opt[1]

Scripts == {"generate_video", "generate_video_fallback"}

CapabilitySets == [hasNeuralInferenceStack : BOOLEAN, hasMediaEncoder : BOOLEAN]

Strategies == 1..4
NeuralImageThenMotion == 1
ImageAnimationFallback == 2
ProceduralFilterGraphRender == 3
MinimalPlaceholderArtifact == 4

VARIABLES
    script,         \* which program serves the request
    argv,           \* the command line
    caps,           \* what is installed: inference stack, ffmpeg
    pc,             \* position of the process
    args,           \* argparse namespace, <<>> before parse_args
    fs,             \* files at the output path and at the metadata path
    dirs,           \* directories that exist (the working directory always does)
    deps,           \* result of check_dependencies
    initial_image,  \* "None" or "image"
    video_frames,   \* "None" or "frames"
    success,        \* main's success flag
    cmd,            \* the ffmpeg command generate_asmr_video built
    result,         \* how the last ffmpeg call ended
    mock_result,    \* return value of create_mock_video
    metadata_log,   \* metadata records written, in order
    outcome,        \* per strategy: NotAttempted, Unavailable, Failed, Success
    attempts,       \* strategies attempted, in order
    fs_error,       \* the filesystem operation that failed, "none" if none
    exit_code       \* <<>> while running, <<code>> once exited

vars == <<script, argv, caps, pc, args, fs, dirs, deps, initial_image,
          video_frames, success, cmd, result, mock_result, metadata_log,
          outcome, attempts, fs_error, exit_code>>

request == <<script, argv, caps>>
locals == <<deps, initial_image, video_frames, success, cmd, result, mock_result>>
history == <<outcome, attempts>>

\* the state of a process at its start, for a command line among argvs
InitFor(argvs) ==
    /\ script \in Scripts
    /\ argv \in argvs
    /\ caps \in CapabilitySets
    /\ pc = "start"
    /\ args = <<>>
    /\ \E old \in {AbsentFile, OldFile} :
          fs = [p \in {argv.output, metadata_path(argv.output)} |->
                  IF p = argv.output THEN old ELSE AbsentFile]
    /\ dirs = {}
    /\ deps = "unprobed"
    /\ initial_image = "None"
    /\ video_frames = "None"
    /\ success = FALSE
    /\ cmd = "None"
    /\ result = "none"
    /\ mock_result = "none"
    /\ metadata_log = <<>>
    /\ outcome = [s \in Strategies |-> "NotAttempted"]
    /\ attempts = <<>>
    /\ fs_error = "none"
    /\ exit_code = <<>>

Init == InitFor(Argv)

\* sys.exit(code), or an uncaught exception (code 1)
Exit(code) ==
    /\ pc' = "exited"
    /\ exit_code' = <<code>>

\* open(path, 'w'/'wb') can succeed only in an existing directory
CanOpen(path) == dirname(path) = <<>> \/ dirname(path) \in dirs

(* ===================== generate_video.py ============================== *)
\* outcomes the environment can give to each call, within the capability set
ImportOutcomes == IF caps.hasNeuralInferenceStack THEN {TRUE} ELSE BOOLEAN

ProbeOutcomes ==
    IF caps.hasNeuralInferenceStack THEN {"present"} ELSE {"absent", "load_error"}

EncoderOutcomes ==
    IF caps.hasMediaEncoder THEN {"exit0", "nonzero"} ELSE {"missing"}

\* what a failed, killed or still running writer can leave at the output
\* path: the file as it was, or an unfinished file of any size
LeftBehind(file) == {file} \cup PartialFiles

\* main, line 252 without its test: the filter-graph render always runs
NextAfterChain_always_render(ok) == "generate_asmr_video"

\* main, line 252: the filter-graph render runs only while success is unset
NextAfterChain(ok) == IF ok THEN "main_finish" ELSE "generate_asmr_video"

\* main, lines 256-261
ExitStatus(ok) == IF ok THEN 0 ELSE 1

\* module level imports, lines 7-14: torch, numpy, PIL, cv2
main_imports ==
    /\ pc = "start"
    /\ script = "generate_video"
    /\ \E ok \in ImportOutcomes :
          IF ok THEN pc' = "main_parse_args" /\ UNCHANGED exit_code
                ELSE Exit(1)
    /\ UNCHANGED <<request, args, fs, dirs, locals, metadata_log, history, fs_error>>

\* main, lines 212-219: --prompt --output --width --height --duration only
main_parse_args ==
    /\ pc = "main_parse_args"
    /\ IF argv.short
          THEN Exit(UsageExitCode) /\ UNCHANGED args
          ELSE /\ args' = [prompt |-> argv.prompt,
                           output |-> argv.output,
                           width |-> OrDefault(argv.width, DefaultWidth),
                           height |-> OrDefault(argv.height, DefaultHeight),
                           duration |-> OrDefault(argv.duration, DefaultDuration)]
               /\ pc' = "main_makedirs"
               /\ UNCHANGED exit_code
    /\ UNCHANGED <<request, fs, dirs, locals, metadata_log, history, fs_error>>

\* main, line 227: os.makedirs(os.path.dirname(args.output), exist_ok=True);
\* os.makedirs('') raises FileNotFoundError, nothing catches it
main_makedirs ==
    /\ pc = "main_makedirs"
    /\ \E created \in (IF dirname(args.output) = <<>> THEN {FALSE} ELSE BOOLEAN) :
          IF created
             THEN /\ dirs' = dirs \cup {dirname(args.output)}
                  /\ pc' = "check_dependencies"
                  /\ UNCHANGED <<fs_error, exit_code>>
             ELSE /\ fs_error' = "makedirs"
                  /\ Exit(1)
                  /\ UNCHANGED dirs
    /\ UNCHANGED <<request, args, fs, locals, metadata_log, history>>

\* check_dependencies, lines 16-24, and the test at line 232; only
\* ImportError is caught
check_dependencies ==
    /\ pc = "check_dependencies"
    /\ \E probe \in ProbeOutcomes :
          /\ deps' = probe
          /\ CASE probe = "present" ->
                    /\ pc' = "generate_initial_image"
                    /\ UNCHANGED <<outcome, exit_code>>
               [] probe = "absent" ->
                    /\ outcome' = [outcome EXCEPT
                                     ![NeuralImageThenMotion] = "Unavailable",
                                     ![ImageAnimationFallback] = "Unavailable"]
                    /\ pc' = NextAfterChain(success)
                    /\ UNCHANGED exit_code
               [] probe = "load_error" ->
                    /\ Exit(1)
                    /\ UNCHANGED outcome
    /\ UNCHANGED <<request, args, cmd, fs, dirs, initial_image, video_frames, success,
                   result, mock_result, metadata_log, attempts, fs_error>>

\* generate_initial_image, lines 26-55, called at line 236
generate_initial_image ==
    /\ pc = "generate_initial_image"
    /\ attempts' = Append(attempts, NeuralImageThenMotion)
    /\ \E ok \in BOOLEAN :
          IF ok
             THEN /\ initial_image' = "image"
                  /\ pc' = "generate_video_from_image"
                  /\ UNCHANGED outcome
             ELSE /\ initial_image' = "None"
                  /\ outcome' = [outcome EXCEPT
                                   ![NeuralImageThenMotion] = "Failed",
                                   ![ImageAnimationFallback] = "Unavailable"]
                  /\ pc' = NextAfterChain(success)
    /\ UNCHANGED <<request, args, cmd, fs, dirs, deps, video_frames, success, result,
                   mock_result, metadata_log, fs_error, exit_code>>

\* generate_initial_image, lines 32-49: from_pretrained and pipe(...) have
\* no timeout; the call never returns
generate_initial_image_blocks ==
    /\ pc = "generate_initial_image"
    /\ attempts' = Append(attempts, NeuralImageThenMotion)
    /\ pc' = "blocked_in_inference"
    /\ UNCHANGED <<request, args, cmd, fs, dirs, deps, initial_image, video_frames,
                   success, result, mock_result, metadata_log, outcome, fs_error,
                   exit_code>>

\* lines 244-250 without the else branch: no animation of the still image
NextAfterMotion_skip_animation(frames) ==
    IF frames = "frames" THEN NextAfterChain(TRUE) ELSE NextAfterChain(FALSE)

\* main, lines 244-250: frames end the chain, no frames lead to the
\* animation of the still image
NextAfterMotion(frames) ==
    IF frames = "frames" THEN NextAfterChain(TRUE) ELSE "create_fallback_video"

\* generate_video_from_image, lines 57-83, called at line 242; on frames
\* main sets success without writing anything (lines 244-247)
generate_video_from_image ==
    /\ pc = "generate_video_from_image"
    /\ \E ok \in BOOLEAN :
          IF ok
             THEN /\ video_frames' = "frames"
                  /\ success' = TRUE
                  /\ outcome' = [outcome EXCEPT ![NeuralImageThenMotion] = "Success"]
                  /\ pc' = NextAfterMotion("frames")
             ELSE /\ video_frames' = "None"
                  /\ outcome' = [outcome EXCEPT ![NeuralImageThenMotion] = "Failed"]
                  /\ pc' = NextAfterMotion("None")
                  /\ UNCHANGED success
    /\ UNCHANGED <<request, args, cmd, fs, dirs, deps, initial_image, result,
                   mock_result, metadata_log, attempts, fs_error, exit_code>>

\* generate_video_from_image, lines 63-77: from_pretrained and pipe(...)
\* have no timeout; the call never returns
generate_video_from_image_blocks ==
    /\ pc = "generate_video_from_image"
    /\ pc' = "blocked_in_inference"
    /\ UNCHANGED <<request, args, cmd, fs, dirs, deps, initial_image, video_frames,
                   success, result, mock_result, metadata_log, history, fs_error,
                   exit_code>>

\* create_fallback_video, lines 85-123, called at line 250.  cv2.VideoWriter
\* does not raise when it cannot open its target: write() is then a no-op
\* and the function still returns True ("unopened").
create_fallback_video ==
    /\ pc = "create_fallback_video"
    /\ attempts' = Append(attempts, ImageAnimationFallback)
    /\ \E how \in {"written", "unopened", "error"} :
          CASE how = "written" ->
                  /\ \E size \in ClipSizes :
                        fs' = [fs EXCEPT ![args.output] = ClipFile("animation", size)]
                  /\ success' = TRUE
               [] how = "unopened" ->
                  /\ success' = TRUE
                  /\ UNCHANGED fs
               [] how = "error" ->
                  /\ \E left \in LeftBehind(fs[args.output]) :
                        fs' = [fs EXCEPT ![args.output] = left]
                  /\ success' = FALSE
    /\ outcome' = [outcome EXCEPT ![ImageAnimationFallback] =
                      IF success' THEN "Success" ELSE "Failed"]
    /\ pc' = NextAfterChain(success')
    /\ UNCHANGED <<request, args, cmd, dirs, deps, initial_image, video_frames, result,
                   mock_result, metadata_log, fs_error, exit_code>>

\* generate_asmr_video, lines 125-209, called at line 254, when ffmpeg
\* returns or cannot be started
generate_asmr_video ==
    /\ pc = "generate_asmr_video"
    /\ attempts' = Append(attempts, ProceduralFilterGraphRender)
    /\ \E how \in EncoderOutcomes :
          /\ result' = how
          /\ CASE how = "exit0" ->
                    /\ \E size \in ClipSizes :
                          fs' = [fs EXCEPT ![args.output] = ClipFile("clip", size)]
                    /\ success' = TRUE
                    /\ outcome' = [outcome EXCEPT ![ProceduralFilterGraphRender] = "Success"]
               [] how = "nonzero" ->
                    /\ \E left \in LeftBehind(fs[args.output]) :
                          fs' = [fs EXCEPT ![args.output] = left]
                    /\ success' = FALSE
                    /\ outcome' = [outcome EXCEPT ![ProceduralFilterGraphRender] = "Failed"]
               [] how = "missing" ->
                    /\ success' = FALSE
                    /\ outcome' = [outcome EXCEPT ![ProceduralFilterGraphRender] = "Unavailable"]
                    /\ UNCHANGED fs
    /\ pc' = "main_finish"
    /\ UNCHANGED <<request, args, dirs, deps, initial_image, video_frames,
                   mock_result, metadata_log, fs_error, exit_code>>
    /\ cmd' = select_cmd(args.prompt)

\* generate_asmr_video, line 198: subprocess.run without a timeout, when
\* ffmpeg never returns; ffmpeg -y may have opened and partly written its
\* output by then
generate_asmr_video_blocks ==
    /\ pc = "generate_asmr_video"
    /\ caps.hasMediaEncoder
    /\ attempts' = Append(attempts, ProceduralFilterGraphRender)
    /\ result' = "running"
    /\ \E left \in LeftBehind(fs[args.output]) :
          fs' = [fs EXCEPT ![args.output] = left]
    /\ pc' = "blocked_in_ffmpeg"
    /\ UNCHANGED <<request, args, dirs, deps, initial_image, video_frames,
                   success, mock_result, metadata_log, outcome, fs_error, exit_code>>
    /\ cmd' = select_cmd(args.prompt)

\* main, lines 256-261
main_finish ==
    /\ pc = "main_finish"
    /\ Exit(ExitStatus(success))
    /\ UNCHANGED <<request, args, fs, dirs, locals, metadata_log, history, fs_error>>

MainNext ==
    \/ main_imports
    \/ main_parse_args
    \/ main_makedirs
    \/ check_dependencies
    \/ generate_initial_image
    \/ generate_initial_image_blocks
    \/ generate_video_from_image
    \/ generate_video_from_image_blocks
    \/ create_fallback_video
    \/ generate_asmr_video
    \/ generate_asmr_video_blocks
    \/ main_finish

(* ================== generate_video_fallback.py ======================== *)
FallbackEncoderOutcomes ==
    IF caps.hasMediaEncoder THEN {"exit0", "nonzero", "timeout"} ELSE {"missing"}

\* lines 37-43 retrying ffmpeg instead of writing the minimal MP4
AfterFfmpeg_retry(how) ==
    IF how = "exit0" THEN "create_mock_video_metadata"
                     ELSE "create_mock_video_ffmpeg"

\* create_mock_video, lines 37-43: exit status 0 keeps ffmpeg's file, every
\* other ending (non-zero, TimeoutExpired, FileNotFoundError) is caught and
\* leads to the minimal MP4
AfterFfmpeg(how) ==
    IF how = "exit0" THEN "create_mock_video_metadata"
                     ELSE "create_mock_video_minimal"

\* create_mock_video, lines 50-58
mock_metadata(duration, file) ==
    [duration |-> duration,
     resolution |-> "1920x1080",
     aspectRatio |-> "16:9",
     fileSize |-> getsize(file),
     generated |-> TRUE,
     fallback |-> TRUE]

\* main, lines 73-80: --prompt --output --duration --asmr --short only;
\* --short is parsed and never read
fallback_parse_args ==
    /\ pc = "start"
    /\ script = "generate_video_fallback"
    /\ IF argv.width # <<>> \/ argv.height # <<>>
          THEN Exit(UsageExitCode) /\ UNCHANGED args
          ELSE /\ args' = [prompt |-> argv.prompt,
                           output |-> argv.output,
                           duration |-> OrDefault(argv.duration, FallbackDefaultDuration),
                           short |-> argv.short]
               /\ pc' = "create_mock_video_mkdir"
               /\ UNCHANGED exit_code
    /\ UNCHANGED <<request, fs, dirs, locals, metadata_log, history, fs_error>>

\* create_mock_video, line 17, called at line 86; a failure is caught at
\* lines 68-70.  Path('clip.mp4').parent is '.', which exists.
create_mock_video_mkdir ==
    /\ pc = "create_mock_video_mkdir"
    /\ attempts' = Append(attempts, MinimalPlaceholderArtifact)
    /\ \E created \in (IF parent(args.output) = <<>> THEN {TRUE} ELSE BOOLEAN) :
          IF created
             THEN /\ dirs' = dirs \cup {parent(args.output)}
                  /\ pc' = "create_mock_video_ffmpeg"
                  /\ UNCHANGED <<mock_result, outcome, fs_error>>
             ELSE /\ mock_result' = "False"
                  /\ fs_error' = "mkdir"
                  /\ outcome' = [outcome EXCEPT ![MinimalPlaceholderArtifact] = "Failed"]
                  /\ pc' = "fallback_finish"
                  /\ UNCHANGED dirs
    /\ UNCHANGED <<request, args, cmd, fs, deps, initial_image, video_frames, success,
                   result, metadata_log, exit_code>>

\* create_mock_video, lines 22-43: subprocess.run(..., timeout=60)
create_mock_video_ffmpeg ==
    /\ pc = "create_mock_video_ffmpeg"
    /\ \E how \in FallbackEncoderOutcomes :
          /\ result' = how
          /\ CASE how = "exit0" ->
                    \E size \in ClipSizes :
                       fs' = [fs EXCEPT ![args.output] = ClipFile("clip", size)]
               [] how \in {"nonzero", "timeout"} ->
                    \E left \in LeftBehind(fs[args.output]) :
                       fs' = [fs EXCEPT ![args.output] = left]
               [] how = "missing" ->
                    UNCHANGED fs
          /\ pc' = AfterFfmpeg(how)
    /\ UNCHANGED <<request, args, cmd, dirs, deps, initial_image, video_frames, success,
                   mock_result, metadata_log, history, fs_error, exit_code>>

\* create_mock_video, lines 44-47: open(output_path, 'wb') and the 32 bytes;
\* a failure here leaves the handler and is caught at lines 68-70.  When
\* open() fails the file is as it was; when the write fails, open() has
\* already truncated the file and fewer than 32 bytes are left.
create_mock_video_minimal ==
    /\ pc = "create_mock_video_minimal"
    /\ \E written \in (IF CanOpen(args.output) THEN BOOLEAN ELSE {FALSE}) :
          IF written
             THEN /\ fs' = [fs EXCEPT ![args.output] = MinimalMp4]
                  /\ pc' = "create_mock_video_metadata"
                  /\ UNCHANGED <<mock_result, outcome, fs_error>>
             ELSE /\ \E left \in {fs[args.output]} \cup
                                  (IF CanOpen(args.output)
                                      THEN CutOff("partial", MinimalMp4Size)
                                      ELSE {}) :
                        fs' = [fs EXCEPT ![args.output] = left]
                  /\ mock_result' = "False"
                  /\ fs_error' = "write"
                  /\ outcome' = [outcome EXCEPT ![MinimalPlaceholderArtifact] = "Failed"]
                  /\ pc' = "fallback_finish"
    /\ UNCHANGED <<request, args, cmd, dirs, deps, initial_image, video_frames, success,
                   result, metadata_log, attempts, exit_code>>

\* lines 66-70 reporting True although the metadata write raised
create_mock_video_return_swallowed(written) == "True"

\* create_mock_video, lines 66-70: True after the metadata was written,
\* False from the handler that catches a failed write
create_mock_video_return(written) == IF written THEN "True" ELSE "False"

\* create_mock_video, lines 49-66: the size is read, then the record is
\* written at output_path.replace('.mp4', '_metadata.json'); a failure is
\* caught at lines 68-70.  When open() fails the file at the metadata path
\* is as it was; when json.dump fails, open() has already truncated that
\* file and a cut-off record is left there.
create_mock_video_metadata ==
    /\ pc = "create_mock_video_metadata"
    /\ LET metadata == mock_metadata(args.duration, fs[args.output])
           path == metadata_path(args.output)
       IN \E written \in (IF CanOpen(path) THEN BOOLEAN ELSE {FALSE}) :
             IF written
                THEN /\ fs' = [fs EXCEPT ![path] = MetadataFile(metadata)]
                     /\ metadata_log' = Append(metadata_log,
                                               [path |-> path, data |-> metadata])
                     /\ mock_result' = create_mock_video_return(TRUE)
                     /\ outcome' = [outcome EXCEPT ![MinimalPlaceholderArtifact] = "Success"]
                     /\ UNCHANGED fs_error
                ELSE /\ \E left \in {fs[path]} \cup
                                     (IF CanOpen(path)
                                         THEN CutOff("partial_json", JsonSize(metadata))
                                         ELSE {}) :
                           fs' = [fs EXCEPT ![path] = left]
                     /\ mock_result' = create_mock_video_return(FALSE)
                     /\ fs_error' = "metadata"
                     /\ outcome' = [outcome EXCEPT ![MinimalPlaceholderArtifact] = "Failed"]
                     /\ UNCHANGED metadata_log
    /\ pc' = "fallback_finish"
    /\ UNCHANGED <<request, args, cmd, dirs, deps, initial_image, video_frames, success,
                   result, attempts, exit_code>>

\* main, lines 86-89
fallback_finish ==
    /\ pc = "fallback_finish"
    /\ Exit(ExitStatus(mock_result = "True"))
    /\ UNCHANGED <<request, args, fs, dirs, locals, metadata_log, history, fs_error>>

FallbackNext ==
    \/ fallback_parse_args
    \/ create_mock_video_mkdir
    \/ create_mock_video_ffmpeg
    \/ create_mock_video_minimal
    \/ create_mock_video_metadata
    \/ fallback_finish

(* ========================== specifications ============================ *)
Next == MainNext \/ FallbackNext

\* both programs, every outcome of the environment
Spec == Init /\ [][Next]_vars

\* generate_video.py alone
MainInit == Init /\ script = "generate_video"
MainSpec == MainInit /\ [][MainNext]_vars

\* both programs, where a process that can take a step eventually takes one
LiveSpec == Init /\ [][Next]_vars /\ WF_vars(Next)

\* generate_video.py on every prompt, for one output path and default options
ClassifyArgv ==
    [prompt : Prompts, output : {<<"out", "/", "clip", ".mp4">>}, width : {<<>>},
     height : {<<>>}, duration : {<<>>}, short : {FALSE}]
ClassifyInit == InitFor(ClassifyArgv) /\ script = "generate_video"
ClassifySpec == ClassifyInit /\ [][MainNext]_vars

(* ============================ properties ============================== *)
OutputFile == fs[argv.output]

Range(seq) == {seq[i] : i \in 1..Len(seq)}

\* f'{width}x{height}'
FormatResolution(width, height) == ToString(width) \o "x" \o ToString(height)

\* C1: whenever a request ends with exit code 0, a non-empty file exists at
\* the requested output path.
C1_ExitZeroHasArtifact ==
    exit_code = <<0>> => (OutputFile.kind # "absent" /\ OutputFile.size > 0)

C3_StrictOrder ==
    /\ \A i, j \in 1..Len(attempts) : i < j => attempts[i] < attempts[j]
    /\ \A k \in 1..Len(attempts) : \A s \in Strategies :
          s < attempts[k] => outcome[s] \in {"Unavailable", "Failed"}
    /\ \A s, t \in Strategies :
          (outcome[s] = "Success" /\ s < t) =>
              (outcome[t] = "NotAttempted" /\ t \notin Range(attempts))

C3_Witness ==
    /\ pc = "exited"
    /\ attempts = <<NeuralImageThenMotion, ImageAnimationFallback,
                    ProceduralFilterGraphRender>>
    /\ outcome[ProceduralFilterGraphRender] = "Success"

\* C4: a request in which a strategy among 1-3 was Unavailable or Failed
\* exits non-zero only when a filesystem operation failed.
C4_NonZeroOnlyOnFilesystemFailure ==
    (/\ pc = "exited"
     /\ \E s \in 1..3 : outcome[s] \in {"Unavailable", "Failed"})
    => (exit_code = <<0>> \/ fs_error # "none")

\* C5: when the inference stack is found absent and the media encoder is
\* found missing, the request ends with the placeholder strategy's Success,
\* exit code 0 and metadata whose fallback flag is true.
C5_FallbackMonotonicity ==
    (/\ pc = "exited"
     /\ deps = "absent"
     /\ result = "missing"
     /\ fs_error = "none")
    => /\ exit_code = <<0>>
       /\ outcome[MinimalPlaceholderArtifact] = "Success"
       /\ Len(metadata_log) = 1
       /\ metadata_log[1].data.fallback

\* C6: no encoder or inference call keeps the request waiting without
\* bound: a call that does not return is cut off and the chain advances.
C6_EveryAttemptBounded == pc \notin {"blocked_in_ffmpeg", "blocked_in_inference"}

\* C7: once create_mock_video has returned, the file at the output path is
\* a non-empty video written by it (ffmpeg's clip or the minimal MP4) unless
\* creating the directory or writing the bytes of the artifact failed,
\* whether ffmpeg succeeded, was missing, exited non-zero or timed out; and
\* it returns False only after one of those two failures.
C7_PlaceholderValidity ==
    mock_result # "none" =>
        /\ fs_error \notin {"mkdir", "write"} =>
              (OutputFile.kind \in {"clip", "minimal"} /\ OutputFile.size > 0)
        /\ mock_result = "False" => fs_error \in {"mkdir", "write"}

\* C8: a request that ends with exit code 0 has written exactly one
\* metadata record, whose fallback flag is true iff the successful strategy
\* is not NeuralImageThenMotion.
C8_OneMetadataPerSuccess ==
    exit_code = <<0>> =>
        /\ Len(metadata_log) = 1
        /\ metadata_log[1].data.fallback <=> (outcome[NeuralImageThenMotion] # "Success")

\* C9: once the step that writes a metadata record is done, the fileSize
\* of the record equals the byte size of the file at the output path, for
\* every output path, for the encoder's clip and for the minimal MP4.
C9_FileSizeAtWriteTime ==
    [][Len(metadata_log') > Len(metadata_log) =>
         metadata_log'[Len(metadata_log')].data.fileSize = fs'[argv.output].size]_vars

\* C10: a request served by the placeholder program that ends without a
\* filesystem failure has written metadata whose resolution is
\* "<width>x<height>" of the request and whose duration is the requested
\* duration.
C10_MetadataRecordsGeometry ==
    (/\ pc = "exited"
     /\ script = "generate_video_fallback"
     /\ fs_error = "none")
    => /\ Len(metadata_log) = 1
       /\ metadata_log[1].data.resolution =
             FormatResolution(OrDefault(argv.width, DefaultWidth),
                              OrDefault(argv.height, DefaultHeight))
       /\ argv.duration # <<>> => metadata_log[1].data.duration = argv.duration[1]

\* the output path without its extension (the last token, when it is one)
Extensions == {".mp4", ".mov"}
WithoutExtension(p) ==
    IF Len(p) > 0 /\ p[Len(p)] \in Extensions THEN SubSeq(p, 1, Len(p) - 1) ELSE p

\* C11: every metadata record is written at the output path without its
\* extension followed by "_metadata.json", also when the extension is not
\* ".mp4", when there is none, and when ".mp4" occurs before the end.
C11_MetadataBesideVideo ==
    \A k \in 1..Len(metadata_log) :
        metadata_log[k].path = WithoutExtension(argv.output) \o <<"_metadata.json">>

\* the rule table of the classification, in priority order
Rules ==
    << [keywords |-> {kw_glass, kw_slice}, template |-> "glass_apple_slicing"],
       [keywords |-> {kw_transformation}, template |-> "business_transformation"],
       [keywords |-> {kw_productivity, kw_automation}, template |-> "automated_productivity"] >>

\* kw occurs in the prompt, letter case ignored
OccursIgnoringCase(kw, prompt) ==
    \E i \in 0..(Len(prompt) - Len(kw)) :
        \A j \in 1..Len(kw) : lower_char(prompt[i + j]) = kw[j]

Matching(prompt) ==
    {i \in 1..Len(Rules) : \E kw \in Rules[i].keywords : OccursIgnoringCase(kw, prompt)}

FirstMatch(prompt) ==
    IF Matching(prompt) = {} THEN "default_dynamic"
    ELSE Rules[CHOOSE i \in Matching(prompt) : \A k \in Matching(prompt) : i <= k].template

word_growth == <<"g", "r", "o", "w", "t", "h">>

\* C12: the command built for a prompt is the template of the first rule,
\* in priority order, one of whose keywords occurs in the prompt with case
\* ignored, and the default template when none does; prompts that differ
\* only in letter case get the same template; a prompt with "automation"
\* and the non-keyword "growth", and no keyword of an earlier rule, gets
\* the automation template.
C12_FirstMatchWins ==
    cmd # "None" =>
        /\ cmd = FirstMatch(argv.prompt)
        /\ \A other \in Prompts :
              (Len(other) = Len(argv.prompt) /\ lower(other) = lower(argv.prompt))
                 => select_cmd(other) = cmd
        /\ (/\ OccursIgnoringCase(kw_automation, argv.prompt)
            /\ OccursIgnoringCase(word_growth, argv.prompt)
            /\ Matching(argv.prompt) \subseteq {3})
           => cmd = "automated_productivity"

C12_Witness ==
    /\ cmd = "automated_productivity"
    /\ argv.prompt # lower(argv.prompt)
    /\ OccursIgnoringCase(kw_automation, argv.prompt)
    /\ OccursIgnoringCase(word_growth, argv.prompt)

\* C13: a failed probe of the inference stack, whatever the failure (the
\* library missing, or present and failing to load), leaves
\* NeuralImageThenMotion Unavailable and the request goes on to the
\* filter-graph render instead of ending there.
C13_ProbeNeverPropagates ==
    deps \in {"absent", "load_error"} =>
        /\ outcome[NeuralImageThenMotion] = "Unavailable"
        /\ pc = "exited" => ProceduralFilterGraphRender \in Range(attempts)

\* C14: when the write of the metadata file fails after the artifact was
\* produced, create_mock_video reports failure and the process does not
\* exit with code 0.
C14_MetadataFailureVisible ==
    fs_error = "metadata" =>
        /\ mock_result = "False"
        /\ pc = "exited" => exit_code = <<1>>

C14_Witness ==
    /\ pc = "exited"
    /\ fs_error = "metadata"
    /\ OutputFile.kind \in {"clip", "minimal"}
    /\ exit_code = <<1>>

\* C15: the effective duration (the one handed to the strategies and
\* recorded in metadata) is 15 when no duration is given and 30 whenever
\* the short-form flag is set, whatever duration is also given.
C15_EffectiveDuration ==
    LET effective == IF argv.short THEN 30
                     ELSE OrDefault(argv.duration, DefaultDuration)
    IN /\ args # <<>> => args.duration = effective
       /\ \A k \in 1..Len(metadata_log) : metadata_log[k].data.duration = effective

\* the chain of generate_video.py is past its first two strategies
PastAnimation ==
    pc \in {"generate_asmr_video", "blocked_in_ffmpeg", "main_finish", "exited"}

\* C16: ImageAnimationFallback is attempted iff image synthesis produced a
\* still image and motion synthesis failed; with no still image (stack
\* absent or image synthesis failed) it is skipped and the filter-graph
\* render is attempted next; when it fails the filter-graph render is
\* still attempted.
C16_AnimationIffStillImage ==
    /\ (ImageAnimationFallback \in Range(attempts)) =>
           (initial_image = "image" /\ outcome[NeuralImageThenMotion] = "Failed")
    /\ (PastAnimation /\ initial_image = "image"
           /\ outcome[NeuralImageThenMotion] = "Failed")
       => ImageAnimationFallback \in Range(attempts)
    /\ (pc \in {"main_finish", "exited"} /\ initial_image = "None"
           /\ outcome[NeuralImageThenMotion] \in {"Unavailable", "Failed"})
       => attempts \in {<<ProceduralFilterGraphRender>>,
                        <<NeuralImageThenMotion, ProceduralFilterGraphRender>>}
    /\ (pc \in {"main_finish", "exited"} /\ outcome[ImageAnimationFallback] = "Failed")
       => ProceduralFilterGraphRender \in Range(attempts)

C16_Witness ==
    /\ pc = "exited"
    /\ outcome[ImageAnimationFallback] = "Failed"
    /\ attempts = <<NeuralImageThenMotion, ImageAnimationFallback,
                    ProceduralFilterGraphRender>>

\* C17: the step that writes a metadata record writes it at a path other
\* than the output path and leaves the file at the output path as it was.
C17_MetadataWriteKeepsVideo ==
    [][Len(metadata_log') > Len(metadata_log) =>
         /\ metadata_log'[Len(metadata_log')].path # argv.output
         /\ fs'[argv.output] = fs[argv.output]]_vars

\* C18: at exit code 0 the file at the output path is not one that existed
\* before the request, nor a partial file left by a failed attempt.
C18_ArtifactWrittenByWinner ==
    exit_code = <<0>> => OutputFile.kind \notin {"old", "partial"}

====
